---------------------------- MODULE Spec2Model ----------------------------
(***************************************************************************)
(* A model of the k-d tree of src/src/kdtree.rs: KDTree::new (build_node,  *)
(* quick_selection, partition) and find_k_nearest_neighbors (knn, the      *)
(* BinaryHeap of candidates, the final sort_by).                           *)
(*                                                                         *)
(* Points are pairs <<x, y>>; an axis ("dimension" closure) is the number  *)
(* of the coordinate it projects (1 for |p| p.x, 2 for |p| p.y).  Axis     *)
(* values and distances are f64 in the repository's tests: an integer or   *)
(* NaN, and every comparison with NaN is false.  Indices are 0-based as in *)
(* the source; a slice data[..] is a TLA+ sequence, so data[j] of the      *)
(* source is data[j + 1] here.  The tree is a function from node ids to    *)
(* points: the root is id 1, the left child of id i is 2i and the right    *)
(* child 2i + 1; a None child is an id outside the domain.                 *)
(***************************************************************************)
EXTENDS Integers, Sequences, FiniteSets, TLC

VARIABLES
    data,          \* the batch handed to KDTree::new
    dimensions,    \* Vec<FMap>: the axis sequence
    rmode,         \* which radius_func the caller supplied
    pc,            \* "start", "built", "query", "done", "panic"
    root,          \* the tree (node id -> value)
    target,        \* find_k_nearest_neighbors' target
    k,             \* find_k_nearest_neighbors' k
    heap,          \* BinaryHeap<PairDistanceValue>: its backing vector
    stack,         \* the pending knn calls (the native call stack)
    visited,       \* history: dist of every node knn has visited, in order
    pruned,        \* history: ids of the far children knn skipped
    shrunk,        \* history: every quick_selection call got a non-empty
                   \* slice, shorter than its caller's, and an index inside it
    result         \* the Vec<T> find_k_nearest_neighbors returns

vars == <<data, dimensions, rmode, pc, root, target, k, heap, stack,
          visited, pruned, shrunk, result>>

-----------------------------------------------------------------------------
(* Bounds of the model. *)

\* longest batch handed to KDTree::new
MaxPts == 4

\* f64::NAN, the value no comparison holds of
NaN == -1

\* axis values of the totally ordered universe
Coords == {0, 1}

\* axis values of the universe with an incomparable value (second axis fixed)
CoordsNaN == {0, 1, NaN}

Points == Coords \X Coords

PointsNaN == CoordsNaN \X {0}

\* the axis sequences a caller may pass: none, x only, x then y
AxisSeqs == {<< >>, <<1>>, <<1, 2>>}

\* the radius functions a caller may pass
RadiusFuncs == {"abs", "zero", "over"}

RECURSIVE SeqsUpTo(_, _)
SeqsUpTo(S, n) ==
    IF n = 0 THEN {<< >>}
    ELSE LET shorter == SeqsUpTo(S, n - 1)
         IN  shorter \cup {Append(s, x) : s \in {t \in shorter : Len(t) = n - 1}, x \in S}

-----------------------------------------------------------------------------
(* f64 arithmetic and comparison (PartialOrd). *)

IsNaN(a) == a = NaN

Lt(a, b) == ~IsNaN(a) /\ ~IsNaN(b) /\ a < b

Le(a, b) == ~IsNaN(a) /\ ~IsNaN(b) /\ a <= b

AbsDiff(a, b) ==
    IF IsNaN(a) \/ IsNaN(b) THEN NaN
    ELSE IF a < b THEN b - a ELSE a - b

Plus(a, b) == IF IsNaN(a) \/ IsNaN(b) THEN NaN ELSE a + b

\* a dimension closure applied to a point: |p| p.x is axis 1, |p| p.y axis 2
Dim(axis, p) == p[axis]

\* dist_func: the Manhattan distance
DistFunc(p, q) == Plus(AbsDiff(p[1], q[1]), AbsDiff(p[2], q[2]))

\* radius_func: the absolute axis difference ("abs"), the constant 0 ("zero"),
\* or an overestimate of the axis difference ("over")
RadiusFunc(mode, d1, d2) ==
    IF mode = "abs" THEN AbsDiff(d1, d2)
    ELSE IF mode = "zero" THEN 0
    ELSE Plus(AbsDiff(d1, d2), 2)

-----------------------------------------------------------------------------
(* KDTree::new *)

\* mutant: a swap that overwrites data[i] and leaves data[j]
SwapOverwrites(s, i, j) == [s EXCEPT ![i + 1] = s[j + 1]]

\* data.swap(i, j), 0-based
Swap(s, i, j) ==
    [x \in 1..Len(s) |-> IF x = i + 1 THEN s[j + 1]
                         ELSE IF x = j + 1 THEN s[i + 1] ELSE s[x]]

\* the loop of partition from index j on; ends with data.swap(i, len - 1)
RECURSIVE PartitionLoop(_, _, _, _, _)
PartitionLoop(s, axis, pivot, i, j) ==
    IF j >= Len(s) - 1
    THEN [data |-> Swap(s, i, Len(s) - 1), ind |-> i]
    ELSE IF Le(Dim(axis, s[j + 1]), pivot)
         THEN PartitionLoop(Swap(s, i, j), axis, pivot, i + 1, j + 1)
         ELSE PartitionLoop(s, axis, pivot, i, j + 1)

\* mutant: the pivot taken from the first element
PartitionFirstPivot(s, axis) ==
    PartitionLoop(s, axis, Dim(axis, s[1]), 0, 0)

\* partition: the pivot is the last element
Partition(s, axis) ==
    PartitionLoop(s, axis, Dim(axis, s[Len(s)]), 0, 0)

\* quick_selection.  data: the slice as rearranged; val: the element returned;
\* ok: FALSE when an index is out of bounds (a panic); shrink: history, TRUE
\* when this call and every call below it got a non-empty slice and an index
\* inside it, and passed a strictly shorter slice on
RECURSIVE QuickSelection(_, _, _)
QuickSelection(s, axis, ind) ==
    IF Len(s) = 0
    THEN [data |-> s, val |-> <<0, 0>>, ok |-> FALSE, shrink |-> FALSE]
    ELSE IF Len(s) = 1
    THEN [data |-> s, val |-> s[1], ok |-> TRUE, shrink |-> ind < 1]
    ELSE LET p == Partition(s, axis)
             n == Len(s)
             lo == SubSeq(p.data, 1, p.ind)
             hi == SubSeq(p.data, p.ind + 2, n)
         IN  IF ind = p.ind
             THEN [data |-> p.data,
                   val |-> IF ind < n THEN p.data[ind + 1] ELSE <<0, 0>>,
                   ok |-> ind < n, shrink |-> ind < n]
             ELSE IF ind < p.ind
             THEN LET r == QuickSelection(lo, axis, ind)
                  IN  [data |-> r.data \o SubSeq(p.data, p.ind + 1, n),
                       val |-> r.val, ok |-> r.ok,
                       shrink |-> r.shrink /\ ind < n /\ Len(lo) < n]
             ELSE LET r == QuickSelection(hi, axis, ind - p.ind - 1)
                  IN  [data |-> SubSeq(p.data, 1, p.ind + 1) \o r.data,
                       val |-> r.val, ok |-> r.ok,
                       shrink |-> r.shrink /\ ind < n /\ Len(hi) < n]

\* mutant: the middle of the slice rounded down from len - 1
MedianIndBelow(len) == (len - 1) \div 2

\* line 131: the index of the median, the lower middle of the slice
MedianInd(len) == len \div 2

EmptyTree == [i \in {} |-> <<0, 0>>]

\* build_node, building the subtree whose root gets node id `id`
RECURSIVE BuildNode(_, _, _, _)
BuildNode(s, dims, dimension_ind, id) ==
    IF Len(s) = 0
    THEN [nodes |-> EmptyTree, ok |-> TRUE, shrink |-> TRUE]
    ELSE IF dimension_ind >= Len(dims)
    THEN [nodes |-> EmptyTree, ok |-> FALSE, shrink |-> TRUE]
    ELSE LET median_ind == MedianInd(Len(s))
             sel == QuickSelection(s, dims[dimension_ind + 1], median_ind)
             next_dimension_ind == (dimension_ind + 1) % Len(dims)
             left == BuildNode(SubSeq(sel.data, 1, median_ind), dims,
                               next_dimension_ind, 2 * id)
             right == BuildNode(SubSeq(sel.data, median_ind + 2, Len(s)), dims,
                                next_dimension_ind, 2 * id + 1)
         IN  IF ~sel.ok
             THEN [nodes |-> EmptyTree, ok |-> FALSE, shrink |-> sel.shrink]
             ELSE [nodes |-> (id :> sel.val) @@ left.nodes @@ right.nodes,
                   ok |-> left.ok /\ right.ok,
                   shrink |-> sel.shrink /\ left.shrink /\ right.shrink]

\* what KDTree::new computes from the batch
Built == BuildNode(data, dimensions, 0, 1)

\* KDTree::new: builds the tree, or panics on an out-of-bounds index
New ==
    /\ pc = "start"
    /\ IF Built.ok
       THEN pc' = "built" /\ root' = Built.nodes
       ELSE pc' = "panic" /\ root' = EmptyTree
    /\ shrunk' = Built.shrink
    /\ UNCHANGED <<data, dimensions, rmode, target, k, heap, stack,
                   visited, pruned, result>>

-----------------------------------------------------------------------------
(* BinaryHeap<PairDistanceValue>, a max-heap in a vector; the comparisons   *)
(* are PairDistanceValue's PartialOrd, which compares dist only.            *)

Pair(p, d) == [value |-> p, dist |-> d]

\* BinaryHeap::sift_up: move the element up while it is not <= its parent
RECURSIVE SiftUp(_, _, _)
SiftUp(h, pos, elem) ==
    IF pos > 0 /\ ~Le(elem.dist, h[((pos - 1) \div 2) + 1].dist)
    THEN SiftUp([h EXCEPT ![pos + 1] = h[((pos - 1) \div 2) + 1]],
                (pos - 1) \div 2, elem)
    ELSE [h EXCEPT ![pos + 1] = elem]

\* heap.push(..)
HeapPush(h, elem) == SiftUp(Append(h, elem), Len(h), elem)

\* BinaryHeap::sift_down_to_bottom: move the hole down along the greater
\* children to the bottom, then sift the element up from there
RECURSIVE SiftDownToBottom(_, _, _)
SiftDownToBottom(h, pos, elem) ==
    LET end == Len(h)
        child == 2 * pos + 1
    IN  IF child + 2 <= end
        THEN LET c == IF Le(h[child + 1].dist, h[child + 2].dist)
                      THEN child + 1 ELSE child
             IN  SiftDownToBottom([h EXCEPT ![pos + 1] = h[c + 1]], c, elem)
        ELSE IF child = end - 1
        THEN SiftUp([h EXCEPT ![pos + 1] = h[child + 1]], child, elem)
        ELSE SiftUp(h, pos, elem)

\* mutant: the last element of the vector dropped instead of the root
HeapPopLast(h) == SubSeq(h, 1, Len(h) - 1)

\* heap.pop(): drops the root
HeapPop(h) ==
    IF Len(h) <= 1 THEN << >>
    ELSE SiftDownToBottom(SubSeq(h, 1, Len(h) - 1), 0, h[Len(h)])

\* mutant: partial_cmp(..).unwrap(), which panics on incomparable values
CompareDistUnwrap(a, b) ==
    IF IsNaN(a) \/ IsNaN(b) THEN "Panic"
    ELSE IF a < b THEN "Less" ELSE IF b < a THEN "Greater" ELSE "Equal"

\* the closure of sort_by, lines 148-150: partial_cmp, or Equal when the two
\* are incomparable
CompareDist(a, b) ==
    IF Lt(a, b) THEN "Less" ELSE IF Lt(b, a) THEN "Greater" ELSE "Equal"

\* pairs.sort_by(..): the stable insertion sort of a short slice; an element
\* moves left past those it compares Less than.  ok: no comparison panicked
RECURSIVE InsertTail(_, _)
InsertTail(s, e) ==
    IF Len(s) = 0 THEN [seq |-> <<e>>, ok |-> TRUE]
    ELSE LET c == CompareDist(e.dist, s[Len(s)].dist)
         IN  IF c = "Less"
             THEN LET r == InsertTail(SubSeq(s, 1, Len(s) - 1), e)
                  IN  [seq |-> Append(r.seq, s[Len(s)]), ok |-> r.ok]
             ELSE [seq |-> Append(s, e), ok |-> c \in {"Equal", "Greater"}]

\* mutant: the pairs returned in the heap's order
SortByUnsorted(s) == [seq |-> s, ok |-> TRUE]

RECURSIVE SortBy(_)
SortBy(s) ==
    IF Len(s) <= 1 THEN [seq |-> s, ok |-> TRUE]
    ELSE LET r == SortBy(SubSeq(s, 1, Len(s) - 1))
             t == InsertTail(r.seq, s[Len(s)])
         IN  [seq |-> t.seq, ok |-> r.ok /\ t.ok]

-----------------------------------------------------------------------------
(* find_k_nearest_neighbors and knn.  The recursion of knn is a stack of    *)
(* frames: "call" is a pending knn(node id, dimension_ind), "far" the part  *)
(* of knn(node id) after its near call has returned.  A call on a None      *)
(* child returns at once and gets no frame.                                 *)

Frame(kind, id, dimension_ind) == [kind |-> kind, id |-> id, dim |-> dimension_ind]

\* lines 183-187: the near child is the left one iff target is below value
NearId(id, dimension_ind) ==
    IF Lt(Dim(dimensions[dimension_ind + 1], target),
          Dim(dimensions[dimension_ind + 1], root[id]))
    THEN 2 * id ELSE 2 * id + 1

FarId(id, dimension_ind) ==
    IF NearId(id, dimension_ind) = 2 * id THEN 2 * id + 1 ELSE 2 * id

\* lines 169-180: the candidate heap after a node at distance dist
HeapUpdate(h, kk, value, dist) ==
    IF Len(h) < kk
    THEN HeapPush(h, Pair(value, dist))
    ELSE IF Len(h) > 0 /\ Lt(dist, h[1].dist)
    THEN HeapPush(HeapPop(h), Pair(value, dist))
    ELSE h

\* mutant: the radius comparison the wrong way round
VisitFarFlipped(h, kk, mode, dt, dv) ==
    \/ Len(h) < kk
    \/ Len(h) > 0 /\ Lt(h[1].dist, RadiusFunc(mode, dt, dv))

\* mutant: the far child searched only on the radius test, not while the heap
\* is short of k
VisitFarNoFill(h, kk, mode, dt, dv) ==
    Len(h) > 0 /\ Lt(RadiusFunc(mode, dt, dv), h[1].dist)

\* mutant: the far child skipped whenever the heap is full
VisitFarFullHeapPrunes(h, kk, mode, dt, dv) ==
    Len(h) < kk

\* lines 192-195: whether knn descends into the far child
VisitFar(h, kk, mode, dt, dv) ==
    \/ Len(h) < kk
    \/ Len(h) > 0 /\ Lt(RadiusFunc(mode, dt, dv), h[1].dist)

\* find_k_nearest_neighbors up to its call of knn on the root
StartQuery(kk) ==
    /\ pc = "built"
    /\ pc' = "query"
    /\ k' = kk
    /\ heap' = << >>
    /\ stack' = IF 1 \in DOMAIN root THEN <<Frame("call", 1, 0)>> ELSE << >>
    /\ UNCHANGED <<data, dimensions, rmode, root, target, visited, pruned,
                   shrunk, result>>

\* knn on a node, lines 166-190: the heap update and the near call; the index
\* into self.dimensions at line 182 panics when it is out of bounds
KnnVisit ==
    /\ pc = "query"
    /\ stack # << >>
    /\ stack[1].kind = "call"
    /\ LET id == stack[1].id
           dimension_ind == stack[1].dim
           value == root[id]
           dist == DistFunc(target, value)
           new_dimension_ind == (dimension_ind + 1) % Len(dimensions)
           near == NearId(id, dimension_ind)
           far == FarId(id, dimension_ind)
       IN  /\ heap' = HeapUpdate(heap, k, value, dist)
           /\ visited' = Append(visited, dist)
           /\ IF dimension_ind >= Len(dimensions)
              THEN pc' = "panic" /\ stack' = << >>
              ELSE /\ pc' = pc
                   /\ stack' =
                        (IF near \in DOMAIN root
                         THEN <<Frame("call", near, new_dimension_ind)>> ELSE << >>)
                        \o (IF far \in DOMAIN root
                            THEN <<Frame("far", id, dimension_ind)>> ELSE << >>)
                        \o Tail(stack)
    /\ UNCHANGED <<data, dimensions, rmode, root, target, k, pruned,
                   shrunk, result>>

\* knn after the near call, lines 192-198, when the far child is searched
KnnDescendFar ==
    /\ pc = "query"
    /\ stack # << >>
    /\ stack[1].kind = "far"
    /\ LET id == stack[1].id
           dimension_ind == stack[1].dim
           axis == dimensions[dimension_ind + 1]
       IN  /\ VisitFar(heap, k, rmode, Dim(axis, target), Dim(axis, root[id]))
           /\ stack' = <<Frame("call", FarId(id, dimension_ind),
                               (dimension_ind + 1) % Len(dimensions))>>
                       \o Tail(stack)
    /\ UNCHANGED <<data, dimensions, rmode, pc, root, target, k, heap,
                   visited, pruned, shrunk, result>>

\* knn after the near call, lines 192-198, when the far child is skipped
KnnPrune ==
    /\ pc = "query"
    /\ stack # << >>
    /\ stack[1].kind = "far"
    /\ LET id == stack[1].id
           dimension_ind == stack[1].dim
           axis == dimensions[dimension_ind + 1]
       IN  /\ ~VisitFar(heap, k, rmode, Dim(axis, target), Dim(axis, root[id]))
           /\ pruned' = pruned \cup {FarId(id, dimension_ind)}
    /\ stack' = Tail(stack)
    /\ UNCHANGED <<data, dimensions, rmode, pc, root, target, k, heap,
                   visited, shrunk, result>>

\* find_k_nearest_neighbors after knn has returned, lines 146-152
Finish ==
    /\ pc = "query"
    /\ stack = << >>
    /\ LET pairs == SortBy(heap)
       IN  IF pairs.ok
           THEN /\ pc' = "done"
                /\ result' = [i \in 1..Len(heap) |-> pairs.seq[i].value]
           ELSE pc' = "panic" /\ result' = << >>
    /\ UNCHANGED <<data, dimensions, rmode, root, target, k, heap, stack,
                   visited, pruned, shrunk>>

-----------------------------------------------------------------------------
(* The specifications. *)

InitWith(P) ==
    /\ data \in SeqsUpTo(P, MaxPts)
    /\ dimensions \in AxisSeqs
    /\ rmode \in RadiusFuncs
    /\ target \in P
    /\ pc = "start"
    /\ root = EmptyTree
    /\ k = 0
    /\ heap = << >>
    /\ stack = << >>
    /\ visited = << >>
    /\ pruned = {}
    /\ shrunk = TRUE
    /\ result = << >>

\* totally ordered axis values and distances
Init == InitWith(Points)

\* axis values and distances with NaN among them
InitNaN == InitWith(PointsNaN)

Next ==
    \/ New
    \/ \E kk \in 0..(Len(data) + 1) : StartQuery(kk)
    \/ KnnVisit
    \/ KnnDescendFar
    \/ KnnPrune
    \/ Finish

Spec == Init /\ [][Next]_vars

SpecNaN == InitNaN /\ [][Next]_vars

-----------------------------------------------------------------------------
(* Vocabulary of the properties. *)

Min(a, b) == IF a < b THEN a ELSE b

\* the ids of the tree's nodes in the subtree under id (id included)
RECURSIVE IsUnder(_, _)
IsUnder(j, id) == j = id \/ (j > id /\ IsUnder(j \div 2, id))

Subtree(id) == {j \in DOMAIN root : IsUnder(j, id)}

RECURSIVE Depth(_)
Depth(id) == IF id <= 1 THEN 0 ELSE 1 + Depth(id \div 2)

\* the axis that governs the node: depth mod |axes|
AxisAt(id) == dimensions[(Depth(id) % Len(dimensions)) + 1]

\* ascending sort of a sequence of integers, by repeated extraction of the least
RECURSIVE SortInts(_)
SortInts(s) ==
    IF Len(s) = 0 THEN << >>
    ELSE LET i == CHOOSE x \in 1..Len(s) : \A y \in 1..Len(s) : s[x] <= s[y]
         IN  <<s[i]>> \o SortInts(SubSeq(s, 1, i - 1) \o SubSeq(s, i + 1, Len(s)))

\* how often p occurs in the sequence s
Count(s, p) == Cardinality({i \in 1..Len(s) : s[i] = p})

SameBag(s, t) ==
    /\ Len(s) = Len(t)
    /\ \A i \in 1..Len(s) : Count(s, s[i]) = Count(t, s[i])

DistsOf(s) == [i \in 1..Len(s) |-> DistFunc(target, s[i])]

\* the linear scan: every distance from target, ascending
BruteForce == SortInts(DistsOf(data))

TreePoints == {root[j] : j \in DOMAIN root}

Constructed == pc \in {"built", "query", "done"}

-----------------------------------------------------------------------------
(* The properties. *)

\* C1: with a radius_func that never exceeds the distance to a point across
\* the splitting value ("abs" and "zero" here), the distances of the points
\* find_k_nearest_neighbors returns are the first k entries of the ascending
\* list of all distances from the target (k <= n).
C1_KnnMatchesBruteForce ==
    (pc = "done" /\ rmode \in {"abs", "zero"} /\ k <= Len(data))
        => DistsOf(result) = SubSeq(BruteForce, 1, k)

\* a query that answered after skipping a far child that holds a node
C1_Witness ==
    /\ pc = "done" /\ rmode = "abs" /\ k >= 1 /\ k < Len(data)
    /\ pruned # {}
    /\ DistsOf(result) = SubSeq(BruteForce, 1, k)

\* C2: find_k_nearest_neighbors(target, n) returns the batch as a multiset,
\* in non-decreasing distance to the target, whatever the radius_func.
C2_FullQueryReturnsBatch ==
    (pc = "done" /\ k = Len(data))
        => /\ SameBag(result, data)
           /\ \A i \in 1..(Len(result) - 1) :
                 DistFunc(target, result[i]) <= DistFunc(target, result[i + 1])

\* a full query over a batch with a duplicate and two distinct distances
C2_Witness ==
    /\ pc = "done" /\ k = Len(data) /\ Len(data) >= 3
    /\ \E i, j \in 1..Len(data) : i # j /\ data[i] = data[j]
    /\ \E i, j \in 1..Len(data) :
          DistFunc(target, data[i]) # DistFunc(target, data[j])
    /\ SameBag(result, data)

\* C3: find_k_nearest_neighbors returns exactly min(k, n) points, whatever
\* radius_func returns: nothing for an empty tree, nothing for k = 0.
C3_ResultLength ==
    pc = "done" => Len(result) = Min(k, Len(data))

\* a query with k above n on a non-empty tree, with the overestimating radius
C3_Witness ==
    /\ pc = "done" /\ rmode = "over"
    /\ Len(data) >= 2 /\ k > Len(data)
    /\ Len(result) = Len(data)

\* C4: in the tree KDTree::new produces, at every node, on the axis of its depth, the points of the left
\* subtree are <= the node's value and those of the right subtree are >= it.
C4_SplitInvariant ==
    pc = "built" =>
        \A id \in DOMAIN root :
            /\ \A j \in Subtree(2 * id) :
                  Le(Dim(AxisAt(id), root[j]), Dim(AxisAt(id), root[id]))
            /\ \A j \in Subtree(2 * id + 1) :
                  Le(Dim(AxisAt(id), root[id]), Dim(AxisAt(id), root[j]))

\* a tree over two axes whose node at depth 1 has a left child below it on the
\* second axis, under a root that is above that node on the first axis
C4_Witness ==
    /\ pc = "built" /\ dimensions = <<1, 2>>
    /\ 4 \in DOMAIN root
    /\ root[4][2] < root[2][2]
    /\ root[2][1] < root[1][1]

\* C5: a node whose subtree holds n points has floor(n/2) of them in its left
\* subtree and n - floor(n/2) - 1 in its right subtree; the tree holds the
\* whole batch.
C5_SubtreeSizes ==
    pc = "built" =>
        /\ Cardinality(DOMAIN root) = Len(data)
        /\ \A id \in DOMAIN root :
              LET n == Cardinality(Subtree(id))
              IN  /\ Cardinality(Subtree(2 * id)) = n \div 2
                  /\ Cardinality(Subtree(2 * id + 1)) = n - (n \div 2) - 1

\* trees of an even and of the largest size, from an all-equal batch too
C5_Witness ==
    /\ pc = "built" /\ Len(data) = MaxPts
    /\ Cardinality(Subtree(2)) = MaxPts \div 2
    /\ \A i \in 1..Len(data) : data[i] = data[1]

\* C6 as claimed: an empty axis sequence is rejected, no tree is produced.
C6_EmptyAxesRejected ==
    Len(dimensions) = 0 => ~Constructed

C8_LeftStrictlyLess ==
    pc = "built" =>
        \A id \in DOMAIN root :
            \A j \in Subtree(2 * id) :
                Lt(Dim(AxisAt(id), root[j]), Dim(AxisAt(id), root[id]))

\* C8 amended: the points of a node's slice other than the median are split
\* between its subtrees, none lost; the left subtree holds only points <= the
\* median on the node's axis (a tie may land on the left) and the right only
\* points >= it.
C8_LeftAtMostRightAtLeast ==
    pc = "built" =>
        /\ SameBag([i \in 1..Cardinality(DOMAIN root) |->
                       root[CHOOSE j \in DOMAIN root :
                              Cardinality({x \in DOMAIN root : x < j}) = i - 1]],
                   data)
        /\ \A id \in DOMAIN root :
              /\ \A j \in Subtree(2 * id) :
                    ~Lt(Dim(AxisAt(id), root[id]), Dim(AxisAt(id), root[j]))
              /\ \A j \in Subtree(2 * id + 1) :
                    ~Lt(Dim(AxisAt(id), root[j]), Dim(AxisAt(id), root[id]))

\* a node with a tie on its left and a strictly smaller point beside the tie
C8_Witness ==
    /\ pc = "built"
    /\ \E id \in DOMAIN root :
          /\ \E j \in Subtree(2 * id) :
                Dim(AxisAt(id), root[j]) = Dim(AxisAt(id), root[id])
          /\ \E j \in Subtree(2 * id) :
                Dim(AxisAt(id), root[j]) < Dim(AxisAt(id), root[id])

\* C9: after v nodes have been visited the heap holds min(k, v) entries, and
\* their distances are the min(k, v) smallest among the visited nodes.
C9_HeapHoldsBestSoFar ==
    pc \in {"query", "done"} =>
        /\ Len(heap) = Min(k, Len(visited))
        /\ SortInts([i \in 1..Len(heap) |-> heap[i].dist])
              = SubSeq(SortInts(visited), 1, Min(k, Len(visited)))

\* a full heap that has evicted: more nodes visited than k, and a visited
\* distance above the heap's worst
C9_Witness ==
    /\ pc = "query" /\ k >= 2 /\ Len(visited) > k
    /\ Len(heap) = k
    /\ \E i \in 1..Len(visited) : visited[i] > heap[1].dist
    /\ visited[Len(visited)] < visited[1]

\* C10: a wrong answer (k <= n, distances other than the brute-force ones)
\* comes without any error, only with the overestimating radius_func, and
\* with a skipped far subtree that holds a point strictly closer than the
\* worst point returned.
C10_OverestimatePrunesCloser ==
    (pc = "done" /\ k <= Len(data) /\ DistsOf(result) # SubSeq(BruteForce, 1, k))
        => /\ rmode = "over"
           /\ \E f \in pruned : \E j \in Subtree(f) : \E i \in 1..Len(result) :
                 DistFunc(target, root[j]) < DistFunc(target, result[i])

\* the wrong answer exists: a finished query with the overestimating radius
\* whose distances are not the k smallest
C10_Witness ==
    /\ pc = "done" /\ rmode = "over" /\ k <= Len(data)
    /\ Len(result) = k
    /\ DistsOf(result) # SubSeq(BruteForce, 1, k)

=============================================================================
